---- MODULE Spec2Model ----
(***************************************************************************)
(* CEM Downloader (QGIS plugin): the per-polygon WCS batch                 *)
(* (poligono_wcs.py) driven from the dialog (plugin.py), the download by   *)
(* state (estado_descarga.py) and the plugin object (plugin.py).           *)
(*                                                                         *)
(* Everything runs on the GUI thread.  A handler that pumps the event loop *)
(* (QApplication.processEvents, QEventLoop.exec_) lets Qt dispatch further *)
(* events from inside it: network signals of every reply in flight, and    *)
(* clicks on the dialog's buttons, which start a nested handler on top of  *)
(* the suspended one.  The model therefore keeps a stack of activations;   *)
(* only the top one runs, and events are dispatched only while the top one *)
(* is at a pumping point.                                                  *)
(***************************************************************************)
EXTENDS Integers, Sequences, FiniteSets, TLC

(* ------------------------------ bounds -------------------------------- *)
\* A behaviour invokes entry points, hands polygons to them and delivers
\* chunks to their downloads as long as (invocations + polygons + chunks)
\* stays within MaxWork; handlers nest to MaxDepth.
MaxWork == 4
MaxDepth == 2
MaxPolys == MaxWork - 1

(* --------------------------- configuration ---------------------------- *)
VALID_RES == {15, 30, 60, 90, 120}
RES_LIST == {15, 30, 60, 90, 120}

\* Resolutions tried by a direct caller of the batch (45 is unsupported),
\* and the entry of the resolution combo (filled from RES_LIST) tried
\* through the dialog.
ResInputs == {30, 45}
ComboRes == {r \in RES_LIST : r = 30}

VARIABLES
    stack,    \* activations of download_poligono_wcs_split_per_polygon, top last
    calls,    \* per invocation of an entry point, in order: how it ended
    log,      \* the log widget (QTextEdit), one record per appended message
    label,    \* text of the status label (QLabel)
    bar,      \* the progress bar (QProgressBar): min, max, value
    disk,     \* the scratch files under CEM_QGIS_Temp/wcs_<layer>_<res>m
    layers,   \* raster layers added to the QgsProject
    work,     \* invocations made, polygons handed over, chunks delivered so far
    pure,     \* a direct evaluation of the URL helpers: inputs, results so far
    estado,   \* tab "Por Estado": its widgets, log, activations and layers
    plugin    \* the CEMDownloaderPlugin object and the menu and toolbar of QGIS

vars == <<stack, calls, log, label, bar, disk, layers, work, pure, estado, plugin>>

(* ------------------------------ widgets ------------------------------- *)
Max2(a, b) == IF a >= b THEN a ELSE b

\* QProgressBar.setRange: a value left outside the new range is reset.
setRange(b, lo, hi) ==
    LET mx == Max2(lo, hi)
        v  == IF b.value < lo - 1 \/ b.value > mx THEN lo - 1 ELSE b.value
    IN  [min |-> lo, max |-> mx, value |-> v]

\* QProgressBar.setValue: a value outside [min, max] is ignored
\* (unless the bar is in the busy state min = max = 0).
setValue(b, v) ==
    IF v = b.value \/ ((v > b.max \/ v < b.min) /\ (b.max # 0 \/ b.min # 0))
    THEN b
    ELSE [b EXCEPT !.value = v]

\* log_append: one record per message; nums are the numbers the f-string
\* interpolates, detail the text of the exception it interpolates.
Entry(c, kind, nums, detail) ==
    [call |-> c, kind |-> kind, nums |-> nums, detail |-> detail]

(* ------------------------------- files -------------------------------- *)
\* A file: the call whose open() created or truncated it last (by), the
\* chunks written to it since (len), and whether it is a complete artifact
\* (good).  Clobbered stands for a file written through a handle other than
\* the one that truncated it last: its content is no call's chunk sequence.
Clobbered == -1
NoFile == [by |-> 0, good |-> FALSE, len |-> 0]
File(c, good) == [by |-> c, good |-> good, len |-> 0]

\* tmp_root / f"wcs_raw_poly_{i:04d}.tif", f"mask_poly_{i:04d}.geojson",
\* f"{layer.name()}__poly{i:04d}__cem_{res_m}m_clip.tif"; one layer name.
PathShared(res, kind, i) == <<res, kind, 1>>
Path(res, kind, i) == <<res, kind, i>>
Paths ==
    (VALID_RES \cap (ResInputs \cup ComboRes)) \X {"raw", "mask", "out"} \X (1..(MaxPolys + 1))

(* --------------------------- the call stack --------------------------- *)
\* An activation: whether on_download_poly made the call (slot), its
\* arguments (res, hasLabel, hasBar), the exploded
\* layer's feature count (total, known once line 244 has run), the loop
\* index i, the position pc, the state of the QNetworkReply of the current
\* polygon, and the steps already taken for the current polygon.
Depth == Len(stack)
Top == stack[Depth]

\* The pumping points: processEvents at lines 253, 278, 293, 318, 322 and
\* the nested QEventLoop of http_get_to_file_progress (line 125).
ProcessEventsPcs == {"pump253", "pump278", "pump293", "pump318", "pump322"}
PumpPcs == ProcessEventsPcs \cup {"exec125"}
Pumping == Depth > 0 /\ Top.pc \in PumpPcs

\* An entry point can be invoked from the idle event loop or from a pump.
CanDispatch == (Depth = 0 \/ Pumping) /\ Depth < MaxDepth /\ work < MaxWork

SetTop(f) == stack' = [stack EXCEPT ![Depth] = f]
Goto(pc) == SetTop([Top EXCEPT !.pc = pc])
Ev(step, res) == [step |-> step, res |-> res]
Did(f, step, res, pc) == [f EXCEPT !.steps = Append(@, Ev(step, res)), !.pc = pc]

Return(c, how) ==
    /\ stack' = SubSeq(stack, 1, Depth - 1)
    /\ calls' = [calls EXCEPT ![c] = how]

\* no failed result of the vector writer is held for the current polygon
NoResult == [shape |-> "none", code |-> "NoError", msg |-> ""]

Push(res, n, hasLabel, hasBar, slot) ==
    /\ work + 1 + n <= MaxWork
    /\ work' = work + 1 + n
    /\ calls' = Append(calls, "running")
    /\ stack' = Append(stack,
          [call |-> Len(calls) + 1, slot |-> slot,
           res |-> res, n |-> n, hasLabel |-> hasLabel,
           hasBar |-> hasBar, total |-> 0, i |-> 0, pc |-> "validate",
           reply |-> "none", received |-> 0, writer |-> NoResult, steps |-> <<>>])

(* ------------------------- decisions of the code ---------------------- *)
\* line 239: if res_m not in VALID_RES
ValidResLax(res) == res \in VALID_RES \cup {45}
ValidRes(res) == res \in VALID_RES

\* line 245: if total == 0
IsEmptyNever(total) == FALSE
IsEmpty(total) == total = 0

\* line 249: if status_label and progressbar
InitProgressGuard(hasLabel, hasBar) == hasLabel /\ hasBar

\* lines 312-318: where control goes after the except clause has logged
AfterExceptAbort == "end320"
AfterExcept == "finally"

\* lines 312-313: the entry the except clause appends
ErrorEntryNoDetail(c, i, total, detail) == Entry(c, "ERROR", <<i, total>>, "")
ErrorEntry(c, i, total, detail) == Entry(c, "ERROR", <<i, total>>, detail)

\* line 258: enumerate(feats, start=1)
NextIndexSkip(i) == i + 2
NextIndex(i) == i + 1

\* lines 260-310: the order of the statements of the try block
PcAfterDownloadFirst(pc) ==
    CASE pc = "bbox"      -> "url"
      [] pc = "url"       -> "status276"
      [] pc = "status276" -> "get"
      [] pc = "pump278"   -> "get"
      [] pc = "get"       -> "exec125"
      [] pc = "exec125"   -> "mask"
      [] pc = "mask"      -> "status291"
      [] pc = "status291" -> "clip"
      [] pc = "pump293"   -> "clip"
      [] pc = "clip"      -> "load"
      [] pc = "load"      -> "finally"
      [] OTHER            -> "finally"
PcAfter(pc) ==
    CASE pc = "bbox"      -> "url"
      [] pc = "url"       -> "mask"
      [] pc = "mask"      -> "status276"
      [] pc = "status276" -> "get"
      [] pc = "pump278"   -> "get"
      [] pc = "get"       -> "exec125"
      [] pc = "exec125"   -> "status291"
      [] pc = "status291" -> "clip"
      [] pc = "pump293"   -> "clip"
      [] pc = "clip"      -> "load"
      [] pc = "load"      -> "finally"
      [] OTHER            -> "finally"

\* lines 124-125: reply.finished.connect(loop.quit); loop.exec_()
LoopQuitAnytime(reply) == TRUE
LoopQuit(reply) == reply \in {"ok", "error"}

\* line 128: if reply.error()
ReplyErrorIgnored(reply) == FALSE
ReplyError(reply) == reply = "error"

\* What QgsVectorFileWriter.writeAsVectorFormatV2 returns (line 201): a bare
\* status code or a tuple (status, message), depending on the QGIS version.
WriterResults ==
    {[shape |-> sh, code |-> "NoError", msg |-> ""] : sh \in {"code", "tuple"}}
    \cup {[shape |-> "code", code |-> "ErrCreateDataSource", msg |-> ""],
          [shape |-> "tuple", code |-> "ErrCreateDataSource", msg |-> "writer message"]}

\* lines 203-206: err_code, err_msg and the RuntimeError raised
mask_error_swallowed(result) ==
    [raised |-> FALSE, detail |-> ""]
mask_error(result) ==
    IF result.code # "NoError"
    THEN [raised |-> TRUE,
          detail |-> IF result.shape = "tuple" /\ result.msg # ""
                     THEN "No se pudo exportar mascara GeoJSON: writer message"
                     ELSE "No se pudo exportar mascara GeoJSON: "]
    ELSE [raised |-> FALSE, detail |-> ""]

\* except Exception as e: log, then fall into the finally clause
Raise(step, detail) ==
    /\ log' = Append(log, ErrorEntry(Top.call, Top.i, Top.total, detail))
    /\ SetTop([Top EXCEPT !.steps = @ \o <<Ev(step, "raise"), Ev("outcome", "ERROR")>>,
                          !.pc = AfterExcept])

(* --------------------------- the URL helpers -------------------------- *)
\* Angles are counted in tenths of an arcsecond (1/36000 degree).
Err(e) == [err |-> e, val |-> 0]
Val(v) == [err |-> "", val |-> v]

\* meters_to_deg_step: table[res_m] / 3600.0, or ValueError
table == (15 :> 5) @@ (30 :> 10) @@ (60 :> 20) @@ (90 :> 30) @@ (120 :> 40)
meters_to_deg_step_default(res_m) ==
    IF res_m \notin DOMAIN table THEN Val(10) ELSE Val(table[res_m])
meters_to_deg_step(res_m) ==
    IF res_m \notin DOMAIN table THEN Err("ValueError") ELSE Val(table[res_m])

\* f"{x:.8f}" and f"{x:.7f}": x rounded to the nearest multiple of 10^-8
\* (10^-7) degree, returned as the count of such multiples.  x / 36000 * 10^8
\* is x * 25000 / 9, never half-way between two integers.
RoundDiv(n, d) ==
    IF n >= 0 THEN (n \div d) + (IF 2 * (n % d) >= d THEN 1 ELSE 0)
    ELSE -(((-n) \div d) + (IF 2 * ((-n) % d) >= d THEN 1 ELSE 0))
Fmt8Stateful(x) == RoundDiv(x * 25000, 9) + Len(log)
Fmt8(x) == RoundDiv(x * 25000, 9)
Fmt7(x) == RoundDiv(x * 2500, 9)

WCS_BASE == "https://gaia.inegi.org.mx/geoserver/wcs"
WCS_COVERAGE_ID == "cem30_workespace:cem3_r15"

\* build_wcs_getcoverage_url: the query items in the order they are added
build_wcs_getcoverage_url(bbox4326, res_m) ==
    LET step == meters_to_deg_step(res_m) IN
    IF step.err # "" THEN [err |-> step.err, url |-> <<>>]
    ELSE [err |-> "",
          url |-> <<WCS_BASE, "GetCoverage", "WCS", "1.0.0", WCS_COVERAGE_ID, "EPSG:4326",
                    <<Fmt8(bbox4326[1]), Fmt8(bbox4326[2]), Fmt8(bbox4326[3]), Fmt8(bbox4326[4])>>,
                    Fmt7(step.val), Fmt7(step.val), "GeoTIFF">>]

\* lines 263-265: pad = step_deg; bbox = (minx - pad, miny - pad, maxx + pad, maxy + pad)
PadBBoxInward(raw, pad) == <<raw[1] + pad, raw[2] + pad, raw[3] - pad, raw[4] - pad>>
PadBBox(raw, pad) == <<raw[1] - pad, raw[2] - pad, raw[3] + pad, raw[4] + pad>>

\* Inputs of a direct evaluation: bounding boxes as _bbox_4326_from_geom
\* returns them (min <= max on both axes), supported and unsupported
\* resolutions.
Coords == {-72013, -5, 0, 5, 54321}
RawBoxes == {b \in Coords \X Coords \X Coords \X Coords : b[1] <= b[3] /\ b[2] <= b[4]}
ResTried == VALID_RES \cup {0, 45}

NoUrl == [err |-> "", url |-> <<>>]

(* ------------------ build_estado_url (estado_descarga.py) -------------- *)
BASE_URL == "https://www.inegi.org.mx/app/geo2/elevacionesmex/DownloadFile.do"
BUILD_TAG == "20170619"

\* str(res_m) and the f-string field {res_m}: the decimal digits of an int
RECURSIVE Digits(_)
Digits(n) == IF n < 10 THEN <<n>> ELSE Append(Digits(n \div 10), n % 10)

\* line 179: if res_m == 15
TifPackageNever(res_m) == FALSE
TifPackage(res_m) == res_m = 15

\* lines 174-191: the file name, then the query items in the order added
build_estado_url(entidad, cve_edo, res_m) ==
    LET fname == IF TifPackage(res_m)
                 THEN <<"CEM_V3_", BUILD_TAG, "_R", Digits(res_m), "_E", cve_edo, "_TIF.zip">>
                 ELSE <<"CEM_V3_", BUILD_TAG, "_R", Digits(res_m), "_E", cve_edo, ".zip">>
    IN  [base |-> BASE_URL,
         query |-> << <<"file", fname>>, <<"res", Digits(res_m)>>, <<"entidad", entidad>> >>]

\* entries of the state combo (plugin.py 127-129): items of estados.json
Estados ==
    {[entidad |-> "Aguascalientes", cve |-> "01"],
     [entidad |-> "Zacatecas", cve |-> "32"]}
NoItem == [entidad |-> "", cve |-> ""]
NoEstadoUrl == [base |-> "", query |-> <<>>]

Eval(raw, res) ==
    [raw |-> raw, res |-> res, phase |-> "input", step |-> Err(""),
     bbox |-> raw, url |-> NoUrl, url2 |-> NoUrl,
     item |-> NoItem, estado_url |-> NoEstadoUrl]
Idle == [Eval(<<0, 0, 0, 0>>, 0) EXCEPT !.phase = "idle"]

(* ------------------------- tab "Por Estado" --------------------------- *)
\* CEMDialog.__init__, lines 85-88: log1 empty, lblStatus1 "Listo.",
\* progress1 at 0 of 0..100; no activation, nothing loaded.  What the server
\* sends and what TEMP holds show only in the outcomes of the stages; work
\* counts invocations and rasters.
EstadoInit ==
    [stack |-> <<>>, calls |-> <<>>, log |-> <<>>, label |-> "Listo.",
     bar |-> [min |-> 0, max |-> 100, value |-> 0],
     layers |-> {}, work |-> 0]

\* CEMDownloaderPlugin.__init__ (plugin.py 215-218): _action and _dlg are
\* None (0); no QAction made, no CEMDialog made, nothing registered.
PluginInit ==
    [action |-> 0, dlg |-> 0, made |-> 0, dialogs |-> 0, shown |-> FALSE,
     menu |-> {}, toolbar |-> {}, ops |-> 0, last |-> "__init__"]

(* ------------------------------- Init --------------------------------- *)
\* CEMDialog.__init__: "Listo.", range 0..100, value 0; nothing on disk.
Init ==
    /\ stack = <<>>
    /\ calls = <<>>
    /\ log = <<>>
    /\ label = "Listo."
    /\ bar = [min |-> 0, max |-> 100, value |-> 0]
    /\ disk = [p \in Paths |-> NoFile]
    /\ layers = {}
    /\ work = 0
    /\ pure = Idle
    /\ estado = EstadoInit
    /\ plugin = PluginInit

(* ---------------------------- entry points ---------------------------- *)
NoLayer == [none |-> TRUE, vector |-> FALSE, polygon |-> FALSE, n |-> 0]
ComboEntries ==
    {NoLayer} \cup
    {[none |-> FALSE, vector |-> TRUE, polygon |-> pg, n |-> k] :
        pg \in BOOLEAN, k \in 0..MaxPolys}

ensure_polygon_layer_any_vector(layer) ==
    IF layer.none THEN FALSE
    ELSE layer.vector
ensure_polygon_layer(layer) ==
    IF layer.none THEN FALSE
    ELSE IF ~layer.vector THEN FALSE
    ELSE layer.polygon

\* CEMDialog.on_download_poly: the clicked slot of btnDescPoly.
on_download_poly(layer, res) ==
    /\ CanDispatch
    /\ IF layer.none \/ ~layer.vector \/ ~ensure_polygon_layer(layer)
       THEN /\ log' = Append(log, Entry(0, "Selecciona", <<>>, ""))
            /\ calls' = Append(calls, "rejected")
            /\ work' = work + 1
            /\ UNCHANGED <<stack, label, bar>>
       ELSE /\ label' = "Preparando"
            /\ bar' = setValue(setRange(bar, 0, 1), 0)
            /\ Push(res, layer.n, TRUE, TRUE, TRUE)
            /\ UNCHANGED log
    /\ UNCHANGED <<disk, layers, pure, estado, plugin>>

\* download_poligono_wcs_split_per_polygon called directly, with or without
\* the optional widgets.
DirectCall(res, n, hasLabel, hasBar) ==
    /\ CanDispatch
    /\ Depth = 0
    /\ Push(res, n, hasLabel, hasBar, FALSE)
    /\ UNCHANGED <<log, label, bar, disk, layers, pure, estado, plugin>>

(* ------------------------ the batch, step by step --------------------- *)
\* lines 239-240
Validate ==
    /\ Depth > 0 /\ Top.pc = "validate"
    /\ IF ValidRes(Top.res)
       THEN Goto("explode") /\ UNCHANGED calls
       ELSE Return(Top.call, "ValueError")
    /\ UNCHANGED <<log, label, bar, disk, layers, work, pure, estado, plugin>>

\* lines 242-247
Explode ==
    /\ Depth > 0 /\ Top.pc = "explode"
    /\ IF IsEmpty(Top.n)
       THEN /\ log' = Append(log, Entry(Top.call, "NoPoligonos", <<>>, ""))
            /\ Return(Top.call, "returned")
       ELSE /\ SetTop([Top EXCEPT !.total = Top.n, !.pc = "init"])
            /\ UNCHANGED <<log, calls>>
    /\ UNCHANGED <<label, bar, disk, layers, work, pure, estado, plugin>>

\* lines 249-253
InitProgress ==
    /\ Depth > 0 /\ Top.pc = "init"
    /\ IF InitProgressGuard(Top.hasLabel, Top.hasBar)
       THEN /\ label' = "PreparandoN"
            /\ bar' = setValue(setRange(bar, 0, Top.total), 0)
            /\ Goto("pump253")
       ELSE /\ Goto("mkdir") /\ UNCHANGED <<label, bar>>
    /\ UNCHANGED <<calls, log, disk, layers, work, pure, estado, plugin>>

\* QApplication.processEvents() returns
AfterPump(pc) ==
    CASE pc = "pump253" -> "mkdir"
      [] pc = "pump318" -> "next"
      [] pc = "pump322" -> "end323"
      [] OTHER          -> PcAfter(pc)

ProcessEventsReturn ==
    /\ Depth > 0 /\ Top.pc \in ProcessEventsPcs
    /\ Goto(AfterPump(Top.pc))
    /\ UNCHANGED <<calls, log, label, bar, disk, layers, work, pure, estado, plugin>>

\* lines 255-256: the scratch directory
MkTmpRoot ==
    /\ Depth > 0 /\ Top.pc = "mkdir"
    /\ Goto("next")
    /\ UNCHANGED <<calls, log, label, bar, disk, layers, work, pure, estado, plugin>>

\* line 258: the for statement takes the next feature, or the loop ends
LoopNext ==
    /\ Depth > 0 /\ Top.pc = "next"
    /\ IF Top.i < Top.total
       THEN SetTop([Top EXCEPT !.i = NextIndex(Top.i), !.pc = "bbox",
                               !.reply = "none", !.received = 0,
                               !.writer = NoResult, !.steps = <<>>])
       ELSE Goto("end320")
    /\ UNCHANGED <<calls, log, label, bar, disk, layers, work, pure, estado, plugin>>

\* lines 260-265: _bbox_4326_from_geom (the transform may raise), padding
Bbox(ok) ==
    /\ Depth > 0 /\ Top.pc = "bbox"
    /\ IF ok /\ meters_to_deg_step(Top.res).err = ""
       THEN SetTop(Did(Top, "bbox", "ok", PcAfter("bbox"))) /\ UNCHANGED log
       ELSE Raise("bbox", IF ok THEN meters_to_deg_step(Top.res).err ELSE "projection")
    /\ UNCHANGED <<calls, label, bar, disk, layers, work, pure, estado, plugin>>

\* lines 267-272: the URL, its log line, the three paths
BuildUrl ==
    /\ Depth > 0 /\ Top.pc = "url"
    /\ log' = Append(log, Entry(Top.call, "WCS", <<Top.i, Top.total>>, ""))
    /\ Goto(PcAfter("url"))
    /\ UNCHANGED <<calls, label, bar, disk, layers, work, pure, estado, plugin>>

\* line 274: _write_single_polygon_geojson_4326; the frame keeps the writer's
\* result when it is a failure
WriteMask(result) ==
    /\ Depth > 0 /\ Top.pc = "mask"
    /\ IF ~mask_error(result).raised
       THEN /\ disk' = [disk EXCEPT ![Path(Top.res, "mask", Top.i)] =
                           File(Top.call, result.code = "NoError")]
            /\ SetTop([Did(Top, "mask", "ok", PcAfter("mask")) EXCEPT
                         !.writer = IF result.code = "NoError" THEN NoResult ELSE result])
            /\ UNCHANGED log
       ELSE /\ log' = Append(log, ErrorEntry(Top.call, Top.i, Top.total,
                                               mask_error(result).detail))
            /\ SetTop([Top EXCEPT !.steps = @ \o <<Ev("mask", "raise"), Ev("outcome", "ERROR")>>,
                                  !.pc = AfterExcept, !.writer = result])
            /\ UNCHANGED disk
    /\ UNCHANGED <<calls, label, bar, layers, work, pure, estado, plugin>>

\* lines 276-278
StatusDownloading ==
    /\ Depth > 0 /\ Top.pc = "status276"
    /\ IF Top.hasLabel
       THEN label' = "Descargando" /\ Goto("pump278")
       ELSE UNCHANGED label /\ Goto(PcAfter("status276"))
    /\ UNCHANGED <<calls, log, bar, disk, layers, work, pure, estado, plugin>>

\* http_get_to_file_progress, lines 103-124: the request is issued and the
\* destination is opened "wb" (created or truncated)
HttpGet ==
    /\ Depth > 0 /\ Top.pc = "get"
    /\ disk' = [disk EXCEPT ![Path(Top.res, "raw", Top.i)] = File(Top.call, FALSE)]
    /\ SetTop([Did(Top, "get", "ok", PcAfter("get")) EXCEPT !.reply = "running",
                                                             !.received = 0])
    /\ UNCHANGED <<calls, log, label, bar, layers, work, pure, estado, plugin>>

\* reply.downloadProgress -> on_progress -> _cb (lines 280-287), for the
\* reply of the activation at stack position k
DownloadProgress(k) ==
    /\ Pumping
    /\ stack[k].reply = "running"
    /\ stack[k].hasLabel
    /\ label' = "Descargando"
    /\ UNCHANGED <<stack, calls, log, bar, disk, layers, work, pure, estado, plugin>>

\* reply.readyRead -> on_ready_read (lines 111-115), for the reply of the
\* activation at stack position k: received += len(chunk); f.write(chunk)
WriteChunk(file, c) ==
    IF file.by = c THEN [file EXCEPT !.len = @ + 1]
    ELSE [by |-> Clobbered, good |-> FALSE, len |-> file.len]

ReadyRead(k) ==
    /\ Pumping
    /\ stack[k].reply = "running"
    /\ work < MaxWork
    /\ work' = work + 1
    /\ LET p == Path(stack[k].res, "raw", stack[k].i) IN
       disk' = [disk EXCEPT ![p] = WriteChunk(disk[p], stack[k].call)]
    /\ stack' = [stack EXCEPT ![k].received = @ + 1]
    /\ UNCHANGED <<calls, log, label, bar, layers, pure, estado, plugin>>

\* reply.finished, with or without reply.error()
ReplyFinished(k, err) ==
    /\ Pumping
    /\ stack[k].reply = "running"
    /\ stack' = [stack EXCEPT ![k].reply = IF err THEN "error" ELSE "ok"]
    /\ UNCHANGED <<calls, log, label, bar, disk, layers, work, pure, estado, plugin>>

\* line 126: f.close() flushes what the handle still buffers; on a path
\* truncated by another open() since, that lands in the other call's file
CloseFile(file, c) ==
    IF file.by = c THEN file
    ELSE [by |-> Clobbered, good |-> FALSE, len |-> file.len]

\* lines 125-133: loop.exec_() returns once finished has quit the loop;
\* f.close(); raise on reply.error()
ExecReturn ==
    /\ Depth > 0 /\ Top.pc = "exec125"
    /\ LoopQuit(Top.reply)
    /\ LET p == Path(Top.res, "raw", Top.i) IN
       IF ReplyError(Top.reply)
       THEN /\ Raise("download", "network")
            /\ disk' = [disk EXCEPT ![p] = CloseFile(disk[p], Top.call)]
       ELSE /\ disk' = [disk EXCEPT ![p] = [CloseFile(disk[p], Top.call)
                                               EXCEPT !.good = (disk[p].by = Top.call)]]
            /\ SetTop(Did(Top, "download", "ok", PcAfter("exec125")))
            /\ UNCHANGED log
    /\ UNCHANGED <<calls, label, bar, layers, work, pure, estado, plugin>>

\* lines 291-293
StatusClipping ==
    /\ Depth > 0 /\ Top.pc = "status291"
    /\ IF Top.hasLabel
       THEN label' = "Recortando" /\ Goto("pump293")
       ELSE UNCHANGED label /\ Goto(PcAfter("status291"))
    /\ UNCHANGED <<calls, log, bar, disk, layers, work, pure, estado, plugin>>

\* lines 295-304: processing.run("gdal:cliprasterbymasklayer").  It writes the
\* output ("ok"), raises ("raise"), or returns although the GDAL process
\* failed and wrote nothing ("silent": the case lines 309-310 exist for).
ClipOutcomes == {"ok", "raise", "silent"}

\* lines 296-297: "INPUT": str(tif_raw), "MASK": str(mask_geojson)
ClipInputs(f) == {Path(f.res, "raw", f.i), Path(f.res, "mask", f.i)}

Clip(outcome) ==
    /\ Depth > 0 /\ Top.pc = "clip"
    /\ CASE outcome = "ok" ->
              /\ \A p \in ClipInputs(Top) : disk[p].good
              /\ disk' = [disk EXCEPT ![Path(Top.res, "out", Top.i)] = File(Top.call, TRUE)]
              /\ SetTop(Did(Top, "clip", "ok", PcAfter("clip")))
              /\ UNCHANGED log
         [] outcome = "raise" ->
              /\ Raise("clip", "clip")
              /\ UNCHANGED disk
         [] OTHER ->
              /\ SetTop(Did(Top, "clip", "silent", PcAfter("clip")))
              /\ UNCHANGED <<log, disk>>
    /\ UNCHANGED <<calls, label, bar, layers, work, pure, estado, plugin>>

\* lines 307-310: the line logged after add_raster_gray_with_stats returned ok
LoadKindAlwaysOK(ok) == "OK"
LoadKind(ok) == IF ok THEN "OK" ELSE "Invalido"

\* lines 306-310: add_raster_gray_with_stats(out_tif) and the outcome line
Load ==
    /\ Depth > 0 /\ Top.pc = "load"
    /\ LET f == disk[Path(Top.res, "out", Top.i)] IN
       IF f.good
       THEN /\ layers' = layers \cup {[call |-> Top.call, i |-> Top.i, by |-> f.by]}
            /\ log' = Append(log, Entry(Top.call, LoadKind(TRUE), <<Top.i, Top.total>>, ""))
            /\ SetTop([Top EXCEPT !.steps = @ \o <<Ev("load", "ok"), Ev("outcome", LoadKind(TRUE))>>,
                                  !.pc = PcAfter("load")])
       ELSE /\ log' = Append(log, Entry(Top.call, LoadKind(FALSE), <<Top.i, Top.total>>, ""))
            /\ SetTop([Top EXCEPT !.steps = @ \o <<Ev("load", "invalid"), Ev("outcome", LoadKind(FALSE))>>,
                                  !.pc = PcAfter("load")])
            /\ UNCHANGED layers
    /\ UNCHANGED <<calls, label, bar, disk, work, pure, estado, plugin>>

\* lines 315-318
Finally ==
    /\ Depth > 0 /\ Top.pc = "finally"
    /\ IF Top.hasBar
       THEN /\ bar' = setValue(bar, Top.i)
            /\ SetTop(Did(Top, "finally", "setValue", "pump318"))
       ELSE /\ SetTop(Did(Top, "finally", "nobar", "next"))
            /\ UNCHANGED bar
    /\ UNCHANGED <<calls, log, label, disk, layers, work, pure, estado, plugin>>

\* lines 320-322
EndStatus ==
    /\ Depth > 0 /\ Top.pc = "end320"
    /\ IF Top.hasLabel /\ Top.hasBar
       THEN label' = "ListoTemp" /\ Goto("pump322")
       ELSE UNCHANGED label /\ Goto("end323")
    /\ UNCHANGED <<calls, log, bar, disk, layers, work, pure, estado, plugin>>

\* line 323, and the return
EndLog ==
    /\ Depth > 0 /\ Top.pc = "end323"
    /\ log' = Append(log, Entry(Top.call, "Listo", <<>>, ""))
    /\ Return(Top.call, "returned")
    /\ UNCHANGED <<label, bar, disk, layers, work, pure, estado, plugin>>

Next ==
    \/ \E layer \in ComboEntries, res \in ComboRes : on_download_poly(layer, res)
    \/ \E res \in ResInputs, n \in 0..MaxPolys, hl \in BOOLEAN, hb \in BOOLEAN :
          DirectCall(res, n, hl, hb)
    \/ Validate
    \/ Explode
    \/ InitProgress
    \/ ProcessEventsReturn
    \/ MkTmpRoot
    \/ LoopNext
    \/ \E ok \in BOOLEAN : Bbox(ok)
    \/ BuildUrl
    \/ \E result \in WriterResults : WriteMask(result)
    \/ StatusDownloading
    \/ HttpGet
    \/ \E k \in 1..Depth : DownloadProgress(k)
    \/ \E k \in 1..Depth : ReadyRead(k)
    \/ \E k \in 1..Depth, err \in BOOLEAN : ReplyFinished(k, err)
    \/ ExecReturn
    \/ StatusClipping
    \/ \E o \in ClipOutcomes : Clip(o)
    \/ Load
    \/ Finally
    \/ EndStatus
    \/ EndLog

Spec == Init /\ [][Next]_vars

\* The GUI thread keeps running the handler on top of the stack, and the
\* network stack eventually finishes every reply (delivered at a pump).
Step ==
    \/ Validate \/ Explode \/ InitProgress \/ ProcessEventsReturn \/ MkTmpRoot
    \/ LoopNext \/ (\E ok \in BOOLEAN : Bbox(ok)) \/ BuildUrl
    \/ (\E result \in WriterResults : WriteMask(result)) \/ StatusDownloading \/ HttpGet
    \/ ExecReturn \/ StatusClipping \/ (\E o \in ClipOutcomes : Clip(o))
    \/ Load \/ Finally \/ EndStatus \/ EndLog

Finished == \E k \in 1..Depth, err \in BOOLEAN : ReplyFinished(k, err)

FairSpec == Spec /\ WF_vars(Step) /\ WF_vars(Finished)


(* ---------------- tab "Por Estado": download_estado_with_progress ------ *)
Program == <<stack, calls, log, label, bar, disk, layers, work>>

EDepth == Len(estado.stack)
ETop == estado.stack[EDepth]

\* processEvents at lines 224, 246, 253, 264, 273 and loop.exec_() (line 127)
\* and, inside the progress callback, at line 238
EProcessEventsPcs ==
    {"pump224", "pump238", "pump246", "pump253", "pump264", "pump273"}
EPumping == EDepth > 0 /\ ETop.pc \in EProcessEventsPcs \cup {"exec127"}
\* invocations plus rasters explored on this tab
MaxEstado == MaxWork - 1
ECanDispatch ==
    (EDepth = 0 \/ EPumping) /\ EDepth < MaxDepth /\ estado.work < MaxEstado

\* lines 212-276: the order of the stages of the try block
EstadoAfterUnzipFirst(pc) ==
    CASE pc = "prepare"   -> "status221"
      [] pc = "status221" -> "pump224"
      [] pc = "pump224"   -> "unzip"
      [] pc = "unzip"     -> "get"
      [] pc = "get"       -> "exec127"
      [] pc = "exec127"   -> "post243"
      [] pc = "post243"   -> "pump246"
      [] pc = "pump246"   -> "status252"
      [] pc = "status252" -> "pump253"
      [] pc = "pump253"   -> "discover"
      [] pc = "discover"  -> "status261"
      [] pc = "status261" -> "pump264"
      [] pc = "pump264"   -> "add"
      [] pc = "add"       -> "pump273"
      [] pc = "pump238"   -> "exec127"
      [] OTHER            -> "add"
EstadoAfter(pc) ==
    CASE pc = "prepare"   -> "status221"
      [] pc = "status221" -> "pump224"
      [] pc = "pump224"   -> "get"
      [] pc = "get"       -> "exec127"
      [] pc = "exec127"   -> "post243"
      [] pc = "post243"   -> "pump246"
      [] pc = "pump246"   -> "unzip"
      [] pc = "unzip"     -> "status252"
      [] pc = "status252" -> "pump253"
      [] pc = "pump253"   -> "discover"
      [] pc = "discover"  -> "status261"
      [] pc = "status261" -> "pump264"
      [] pc = "pump264"   -> "add"
      [] pc = "add"       -> "pump273"
      [] pc = "pump238"   -> "exec127"
      [] OTHER            -> "add"

\* lines 279-280: the progress bar as the except clause leaves it
HandlerBarKept(b) == b
HandlerBar(b) == setValue(setRange(b, 0, 100), 0)

EDid(f, step, res) ==
    [f EXCEPT !.steps = Append(@, Ev(step, res)), !.pc = EstadoAfter(f.pc)]
EWith(f) == [estado.stack EXCEPT ![EDepth] = f]
EPop == SubSeq(estado.stack, 1, EDepth - 1)
EEnd(how) == [estado.calls EXCEPT ![ETop.call] = how]

\* lines 278-282: except Exception as e; the function then returns normally
ECaught(e, detail) ==
    [e EXCEPT !.bar = HandlerBar(e.bar),
              !.label = "Error.",
              !.log = Append(e.log, Entry(ETop.call, "ERROR", <<>>, detail)),
              !.stack = EPop,
              !.calls = EEnd("caught")]
ELogged(kind, nums) ==
    [estado EXCEPT !.log = Append(@, Entry(ETop.call, kind, nums, ""))]

\* CEMDialog.on_download_estado (plugin.py 154-171): the clicked slot of
\* btnDescEstado; item is the combo's current data, None on an empty combo
on_download_estado(item) ==
    /\ ECanDispatch
    /\ IF ~item
       THEN estado' = [estado EXCEPT
                         !.log = Append(@, Entry(0, "Selecciona", <<>>, "")),
                         !.calls = Append(@, "rejected"),
                         !.work = @ + 1]
       ELSE estado' = [estado EXCEPT
                         !.calls = Append(@, "running"),
                         !.work = @ + 1,
                         !.stack = Append(@, [call |-> Len(estado.calls) + 1,
                                              pc |-> "prepare", reply |-> "none",
                                              rasters |-> 0, i |-> 0, steps |-> <<>>])]
    /\ UNCHANGED <<Program, pure, plugin>>

\* lines 213-218: the URL is built and logged, the temp folder is made
EPrepare(ok) ==
    /\ EDepth > 0 /\ ETop.pc = "prepare"
    /\ estado' = IF ok
                 THEN [ELogged("URL", <<>>) EXCEPT !.stack = EWith(EDid(ETop, "prepare", "ok"))]
                 ELSE ECaught(ELogged("URL", <<>>), "mkdir")
    /\ UNCHANGED <<Program, pure, plugin>>

\* lines 221-223
EStatusConnecting ==
    /\ EDepth > 0 /\ ETop.pc = "status221"
    /\ estado' = [estado EXCEPT
                    !.label = "Conectando",
                    !.bar = setValue(setRange(@, 0, 0), 0),
                    !.stack = EWith([ETop EXCEPT !.pc = EstadoAfter("status221")])]
    /\ UNCHANGED <<Program, pure, plugin>>

\* QApplication.processEvents() returns once the slots it dispatched are done
EProcessEventsReturn ==
    /\ EDepth > 0 /\ ETop.pc \in EProcessEventsPcs
    /\ estado' = [estado EXCEPT !.stack = EWith([ETop EXCEPT !.pc =
                     IF ETop.pc = "pump273" /\ ETop.i >= ETop.rasters
                     THEN "end275" ELSE EstadoAfter(ETop.pc)])]
    /\ UNCHANGED <<Program, pure, plugin>>

\* line 227 and http_get_to_file_progress lines 105-126: the request is sent
\* and the ZIP opened for writing (open may raise)
EHttpGet(ok) ==
    /\ EDepth > 0 /\ ETop.pc = "get"
    /\ estado' = IF ok
                 THEN [ELogged("Descargando", <<>>) EXCEPT
                         !.stack = EWith([ETop EXCEPT !.pc = EstadoAfter("get"),
                                                      !.reply = "running"])]
                 ELSE ECaught(ELogged("Descargando", <<>>), "open")
    /\ UNCHANGED <<Program, pure, plugin>>

\* reply.downloadProgress -> on_progress -> _cb (lines 229-238)
EDownloadProgress(k, br, bt) ==
    /\ EDepth > 0 /\ EPumping
    /\ k \in 1..EDepth /\ estado.stack[k].reply = "running"
    /\ estado.stack[k].pc = "exec127"
    /\ estado' = [estado EXCEPT
                    !.bar = IF bt <= 0 THEN setRange(@, 0, 0)
                            ELSE setValue(setRange(@, 0, 100), (br * 100) \div Max2(1, bt)),
                    !.label = "Descargando",
                    !.stack = [@ EXCEPT ![k] = [@ EXCEPT !.pc = "pump238"]]]
    /\ UNCHANGED <<Program, pure, plugin>>

\* reply.finished -> loop.quit (line 126)
EReplyFinished(k, err) ==
    /\ EDepth > 0 /\ EPumping
    /\ k \in 1..EDepth /\ estado.stack[k].reply = "running"
    /\ estado' = [estado EXCEPT !.stack = [@ EXCEPT ![k] =
                     [@ EXCEPT !.reply = IF err THEN "error" ELSE "finished"]]]
    /\ UNCHANGED <<Program, pure, plugin>>

\* lines 127-135: exec_() returns, the file is closed, reply.error() decides
EExecReturn ==
    /\ EDepth > 0 /\ ETop.pc = "exec127" /\ ETop.reply # "running"
    /\ estado' = IF ETop.reply = "error"
                 THEN ECaught(estado, "Error de red")
                 ELSE [estado EXCEPT !.stack = EWith(EDid(ETop, "download", "ok"))]
    /\ UNCHANGED <<Program, pure, plugin>>

\* lines 243-245
EPostDownload ==
    /\ EDepth > 0 /\ ETop.pc = "post243"
    /\ estado' = [estado EXCEPT
                    !.bar = setValue(setRange(@, 0, 100), 100),
                    !.label = "Descomprimiendo",
                    !.stack = EWith([ETop EXCEPT !.pc = EstadoAfter("post243")])]
    /\ UNCHANGED <<Program, pure, plugin>>

\* lines 249-250: unzip_all raises on a ZIP it cannot read or extract
EUnzip(ok) ==
    /\ EDepth > 0 /\ ETop.pc = "unzip"
    /\ estado' = IF ok
                 THEN [ELogged("Descomprimiendo", <<>>) EXCEPT
                         !.stack = EWith(EDid(ETop, "unzip", "ok"))]
                 ELSE ECaught(ELogged("Descomprimiendo", <<>>), "zip")
    /\ UNCHANGED <<Program, pure, plugin>>

\* line 252
EStatusSearching ==
    /\ EDepth > 0 /\ ETop.pc = "status252"
    /\ estado' = [estado EXCEPT
                    !.label = "Buscando",
                    !.stack = EWith([ETop EXCEPT !.pc = EstadoAfter("status252")])]
    /\ UNCHANGED <<Program, pure, plugin>>

\* lines 254-258: guess_raster_files finds n rasters under tmp_dir
EDiscover(n) ==
    /\ EDepth > 0 /\ ETop.pc = "discover"
    /\ estado.work + n <= MaxEstado
    /\ estado' = IF n = 0
                 THEN [ELogged("NoRasters", <<>>) EXCEPT
                         !.label = "No se encontraron",
                         !.stack = EPop,
                         !.calls = EEnd("returned")]
                 ELSE [estado EXCEPT
                         !.work = @ + n,
                         !.stack = EWith([EDid(ETop, "discover", "ok") EXCEPT !.rasters = n])]
    /\ UNCHANGED <<Program, pure, plugin>>

\* lines 261-263
EStatusAdding ==
    /\ EDepth > 0 /\ ETop.pc = "status261"
    /\ estado' = [estado EXCEPT
                    !.label = "Agregando",
                    !.bar = setValue(setRange(@, 0, ETop.rasters), 0),
                    !.stack = EWith([ETop EXCEPT !.pc = EstadoAfter("status261")])]
    /\ UNCHANGED <<Program, pure, plugin>>

\* lines 267-272: one raster of the loop
EAddRaster(outcome) ==
    /\ EDepth > 0 /\ ETop.pc = "add"
    /\ LET i == ETop.i + 1
           f == [EDid(ETop, "add", outcome) EXCEPT !.i = i]
       IN  estado' =
             CASE outcome = "ok" ->
                    [ELogged("Agregado", <<i>>) EXCEPT
                       !.layers = @ \cup {<<ETop.call, i>>},
                       !.bar = setValue(@, i),
                       !.stack = EWith(f)]
               [] outcome = "invalid" ->
                    [ELogged("Invalido", <<i>>) EXCEPT
                       !.bar = setValue(@, i),
                       !.stack = EWith(f)]
               [] OTHER -> ECaught(estado, "raster")
    /\ UNCHANGED <<Program, pure, plugin>>

\* lines 275-276
EEndStatus ==
    /\ EDepth > 0 /\ ETop.pc = "end275"
    /\ estado' = [ELogged("Listo", <<>>) EXCEPT
                    !.label = "Listo TEMP",
                    !.stack = EPop,
                    !.calls = EEnd("returned")]
    /\ UNCHANGED <<Program, pure, plugin>>

EstadoAct ==
    \/ \E item \in BOOLEAN : on_download_estado(item)
    \/ \E ok \in BOOLEAN : EPrepare(ok)
    \/ EStatusConnecting
    \/ EProcessEventsReturn
    \/ \E ok \in BOOLEAN : EHttpGet(ok)
    \/ \E k \in 1..MaxDepth, p \in {<<1, 0>>, <<1, 2>>, <<2, 2>>} :
          EDownloadProgress(k, p[1], p[2])
    \/ \E k \in 1..MaxDepth, err \in BOOLEAN : EReplyFinished(k, err)
    \/ EExecReturn
    \/ EPostDownload
    \/ \E ok \in BOOLEAN : EUnzip(ok)
    \/ EStatusSearching
    \/ \E n \in 0..MaxEstado : EDiscover(n)
    \/ EStatusAdding
    \/ \E outcome \in {"ok", "invalid", "raise"} : EAddRaster(outcome)
    \/ EEndStatus

EstadoSpec == Init /\ [][EstadoAct]_vars

(* ------------------- CEMDownloaderPlugin (plugin.py) ------------------- *)
\* calls of initGui, run and unload explored on one plugin object
MaxOps == 2 * MaxWork

\* line 242: if self._dlg is None
RunCreatesAlways(p) == TRUE
RunCreates(p) == p.dlg = 0

\* initGui (lines 220-227): a new QAction, kept in _action, added to the
\* plugin menu and to the toolbar
initGui ==
    /\ plugin.ops < MaxOps
    /\ LET a == plugin.made + 1 IN
       plugin' = [plugin EXCEPT !.made = a, !.action = a,
                                !.menu = @ \cup {a}, !.toolbar = @ \cup {a},
                                !.ops = @ + 1, !.last = "initGui"]
    /\ UNCHANGED <<Program, pure, estado>>

\* unload (lines 229-236)
unload ==
    /\ plugin.ops < MaxOps
    /\ plugin' = [plugin EXCEPT
                    !.menu = IF plugin.action # 0 THEN @ \ {plugin.action} ELSE @,
                    !.toolbar = IF plugin.action # 0 THEN @ \ {plugin.action} ELSE @,
                    !.action = 0,
                    !.ops = @ + 1, !.last = "unload"]
    /\ UNCHANGED <<Program, pure, estado>>

\* run (lines 238-246): the dialog is made on the first call, then shown
run ==
    /\ plugin.ops < MaxOps
    /\ plugin' = [plugin EXCEPT
                    !.dialogs = IF RunCreates(plugin) THEN @ + 1 ELSE @,
                    !.dlg = IF RunCreates(plugin) THEN plugin.dialogs + 1 ELSE @,
                    !.shown = TRUE,
                    !.ops = @ + 1, !.last = "run"]
    /\ UNCHANGED <<Program, pure, estado>>

\* the user closes the non-modal dialog (line 73): it is hidden, not deleted
CloseDialog ==
    /\ plugin.dlg # 0 /\ plugin.shown
    /\ plugin' = [plugin EXCEPT !.shown = FALSE]
    /\ UNCHANGED <<Program, pure, estado>>

PluginAct == initGui \/ unload \/ run \/ CloseDialog

PluginSpec == Init /\ [][PluginAct]_vars

(* ------------------ the URL helpers, evaluated directly ----------------- *)

PureInit ==
    /\ stack = <<>> /\ calls = <<>> /\ log = <<>> /\ label = "Listo."
    /\ bar = [min |-> 0, max |-> 100, value |-> 0]
    /\ disk = [p \in Paths |-> NoFile] /\ layers = {} /\ work = 0
    /\ pure \in {Eval(raw, res) : raw \in RawBoxes, res \in ResTried}
    /\ estado = EstadoInit
    /\ plugin = PluginInit

\* line 263: step_deg = meters_to_deg_step(res_m)
EvalStep ==
    /\ pure.phase = "input"
    /\ pure' = [pure EXCEPT !.step = meters_to_deg_step(pure.res), !.phase = "step"]
    /\ UNCHANGED <<Program, estado, plugin>>

\* lines 264-265
EvalPad ==
    /\ pure.phase = "step" /\ pure.step.err = ""
    /\ pure' = [pure EXCEPT !.bbox = PadBBox(pure.raw, pure.step.val), !.phase = "padded"]
    /\ UNCHANGED <<Program, estado, plugin>>

\* line 267: url = build_wcs_getcoverage_url(bbox, res_m); with an unsupported
\* resolution the helper is called on the raw box
EvalUrl ==
    /\ pure.phase = "padded" \/ (pure.phase = "step" /\ pure.step.err # "")
    /\ pure' = [pure EXCEPT !.url = build_wcs_getcoverage_url(pure.bbox, pure.res),
                            !.phase = "built"]
    /\ UNCHANGED <<Program, estado, plugin>>

\* other operations of the program run: a log line, a progress update, a file
Touch ==
    /\ pure.phase = "built"
    /\ log' = Append(log, Entry(0, "WCS", <<1, 1>>, ""))
    /\ bar' = setValue(bar, 1)
    /\ label' = "Descargando"
    /\ disk' = [disk EXCEPT ![Path(30, "raw", 1)] = File(1, TRUE)]
    /\ pure' = [pure EXCEPT !.phase = "touched"]
    /\ UNCHANGED <<stack, calls, layers, work, estado, plugin>>

\* the same call once more
EvalUrlAgain ==
    /\ pure.phase \in {"built", "touched"}
    /\ pure' = [pure EXCEPT !.url2 = build_wcs_getcoverage_url(pure.bbox, pure.res),
                            !.phase = "again"]
    /\ UNCHANGED <<Program, estado, plugin>>

\* estado_descarga.py line 213: url = build_estado_url(entidad, cve, res_m)
EvalEstadoUrl(item) ==
    /\ pure.phase = "again"
    /\ pure' = [pure EXCEPT
                  !.item = item,
                  !.estado_url = build_estado_url(item.entidad, item.cve, pure.res),
                  !.phase = "estado"]
    /\ UNCHANGED <<Program, estado, plugin>>

PureNext ==
    \/ EvalStep \/ EvalPad \/ EvalUrl \/ Touch \/ EvalUrlAgain
    \/ \E item \in Estados : EvalEstadoUrl(item)

PureSpec == PureInit /\ [][PureNext]_vars


(* ===================== properties of the batch ======================== *)
OutcomeKinds == {"OK", "Invalido", "ERROR"}
Frames == {stack[k] : k \in 1..Depth}
Started == {c \in 1..Len(calls) : calls[c] # "rejected"}

\* Positions in the log of the outcome lines "[i/total] OK", "[i/total]
\* Archivo invalido" and "[i/total] ERROR" of call c, and those of polygon i.
OutcomePos(c) == {k \in DOMAIN log : log[k].call = c /\ log[k].kind \in OutcomeKinds}
OutcomePosOf(c, i) == {k \in OutcomePos(c) : log[k].nums[1] = i}
ErrorPosOf(c, i) == {k \in OutcomePosOf(c, i) : log[k].kind = "ERROR"}
HasStep(f, step, res) == \E k \in DOMAIN f.steps : f.steps[k] = Ev(step, res)
HasStepNamed(f, step) == \E k \in DOMAIN f.steps : f.steps[k].step = step

\* Network requests in flight: replies that have not emitted finished.
InFlight == Cardinality({k \in 1..Depth : stack[k].reply = "running"})

\* C1: batch isolation.  When the download of polygon K of a batch fails with
\* a network error, exactly one failure entry is logged for K, the call goes
\* on (nothing escapes it), and once it has returned every polygon K+1..N
\* has its own single outcome entry.
C1_BatchIsolation ==
    /\ \A f \in Frames :
          HasStep(f, "download", "raise") =>
             /\ Cardinality(ErrorPosOf(f.call, f.i)) = 1
             /\ calls[f.call] = "running"
    /\ \A k \in DOMAIN log :
          (log[k].kind = "ERROR" /\ log[k].detail = "network") =>
             LET c == log[k].call
                 K == log[k].nums[1]
                 N == log[k].nums[2]
             IN /\ Cardinality(ErrorPosOf(c, K)) = 1
                /\ Cardinality(OutcomePosOf(c, K)) = 1
                /\ calls[c] \in {"running", "returned"}
                /\ calls[c] = "returned" =>
                      \A j \in (K + 1)..N : Cardinality(OutcomePosOf(c, j)) = 1

C1_Witness ==
    \E c \in Started :
       /\ calls[c] = "returned"
       /\ \E k \in DOMAIN log : log[k] = Entry(c, "ERROR", <<1, 2>>, "network")
       /\ \E k \in DOMAIN log : log[k] = Entry(c, "OK", <<2, 2>>, "")

\* C2: with a resolution outside {15,30,60,90,120} the batch raises at once:
\* the step taken from its entry ends the call with the invalid-resolution
\* error and leaves log, label, progress bar, files and layers as they were;
\* no request was issued and no step of the pipeline was taken before it.
C2_Step ==
    (Depth > 0 /\ Top.pc = "validate" /\ Top.res \notin VALID_RES) =>
       /\ stack' = SubSeq(stack, 1, Depth - 1)
       /\ calls' = [calls EXCEPT ![Top.call] = "ValueError"]
       /\ Top.reply = "none" /\ Top.steps = <<>>
       /\ UNCHANGED <<log, label, bar, disk, layers>>

C2_InvalidResolution == [][C2_Step]_vars

C2_Witness ==
    \E c \in Started : calls[c] = "ValueError" /\ Depth = 0

\* C3: with zero single-part polygons the call returns normally: every step
\* of such a call leaves files and layers alone and issues no request, and
\* the step after exploding logs the no-polygons message and returns.
C3_Step ==
    (Depth > 0 /\ Top.n = 0 /\ Top.res \in VALID_RES) =>
       /\ UNCHANGED <<disk, layers>>
       /\ Top.reply = "none" /\ Top.steps = <<>>
       /\ Top.pc \in {"validate", "explode"}
       /\ Top.pc = "validate" => (Depth' = Depth /\ stack'[Depth].reply = "none")
       /\ Top.pc = "explode" =>
             /\ stack' = SubSeq(stack, 1, Depth - 1)
             /\ calls' = [calls EXCEPT ![Top.call] = "returned"]
             /\ log' = Append(log, Entry(Top.call, "NoPoligonos", <<>>, ""))

C3_EmptyInput == [][C3_Step]_vars

C3_Witness ==
    \E c \in Started :
       /\ calls[c] = "returned"
       /\ \E k \in DOMAIN log : log[k] = Entry(c, "NoPoligonos", <<>>, "")
       /\ OutcomePos(c) = {}

\* C4: at every moment at most one network request is in flight.
C4_OneInFlight == InFlight <= 1


\* The steps of one polygon's pipeline as the claim orders them, and as the
\* try block orders them.
ClaimedOrder == <<"bbox", "get", "download", "mask", "clip", "load", "outcome", "finally">>
CodeOrder == <<"bbox", "mask", "get", "download", "clip", "load", "outcome", "finally">>
Rank(order, name) == CHOOSE k \in DOMAIN order : order[k] = name

\* The steps taken for the current polygon of f follow `order`, none twice;
\* a step that raised is followed by the failure outcome at once; each step
\* was preceded by the successful steps it depends on.
Pipeline(f, order) ==
    /\ \A a, b \in DOMAIN f.steps :
          a < b => Rank(order, f.steps[a].step) < Rank(order, f.steps[b].step)
    /\ \A a \in DOMAIN f.steps :
          f.steps[a].res = "raise" =>
             a < Len(f.steps) /\ f.steps[a + 1] = Ev("outcome", "ERROR")
    /\ HasStepNamed(f, "get") => HasStep(f, "bbox", "ok")
    /\ HasStepNamed(f, "mask") => HasStep(f, "bbox", "ok")
    /\ HasStepNamed(f, "clip") => HasStep(f, "mask", "ok") /\ HasStep(f, "download", "ok")
    /\ HasStepNamed(f, "load") => HasStepNamed(f, "clip") /\ ~HasStep(f, "clip", "raise")

\* C5 as claimed: projection -> download -> mask write -> clip -> load-or-fail,
\* the mask of polygon i written only after its download has completed.
C5_MaskAfterDownload ==
    \A f \in Frames :
       /\ Pipeline(f, ClaimedOrder)
       /\ HasStepNamed(f, "mask") => HasStep(f, "download", "ok")

\* C5 as amended: projection -> mask write -> download -> clip -> load-or-fail.
\* The mask of polygon i is written before its download is started, the clip
\* runs only after both succeeded, no step runs twice for a polygon and
\* nothing but the finally clause follows its outcome.
C5_PipelineOrder ==
    \A f \in Frames :
       /\ Pipeline(f, CodeOrder)
       /\ HasStepNamed(f, "get") => HasStep(f, "mask", "ok")

C5_Witness ==
    \E f \in Frames :
       /\ HasStep(f, "mask", "ok") /\ HasStep(f, "download", "ok")
       /\ HasStep(f, "clip", "ok") /\ HasStep(f, "load", "ok")
       /\ HasStepNamed(f, "finally")

\* C6: polygons are taken in input order, each exactly once.  The loop index
\* of a call only ever moves from i to i + 1, and only after polygon i has
\* its outcome logged and the finally clause has run (advancing the progress
\* bar when one is supplied); the outcome lines of a call are those of
\* polygons 1, 2, ... in this order, and the loop ends at index N.
OutcomesUpTo(c, m) ==
    /\ \A j \in 1..m : Cardinality(OutcomePosOf(c, j)) = 1
    /\ \A a, b \in OutcomePos(c) :
          /\ log[a].nums[1] \in 1..m
          /\ a < b => log[a].nums[1] < log[b].nums[1]

C6_State ==
    \A f \in Frames :
       /\ f.i \in 0..f.total
       /\ f.steps # <<>> => f.i >= 1
       /\ f.pc \in {"end320", "pump322", "end323"} => f.i = f.total
       /\ OutcomesUpTo(f.call, IF HasStepNamed(f, "outcome") THEN f.i
                               ELSE IF f.i = 0 THEN 0 ELSE f.i - 1)

C6_Step ==
    \A k \in 1..Depth :
       (k <= Len(stack') /\ stack'[k].i # stack[k].i) =>
          /\ stack'[k].i = stack[k].i + 1
          /\ stack'[k].steps = <<>>
          /\ stack[k].i >= 1 =>
                /\ stack[k].steps[Len(stack[k].steps)].step = "finally"
                /\ HasStepNamed(stack[k], "outcome")
                /\ stack[k].hasBar => HasStep(stack[k], "finally", "setValue")

C6_InputOrder == [](C6_State) /\ [][C6_Step]_vars

C6_Witness ==
    \E f \in Frames :
       /\ f.pc = "end323" /\ f.total = 2
       /\ Cardinality(OutcomePosOf(f.call, 1)) = 1
       /\ Cardinality(OutcomePosOf(f.call, 2)) = 1

\* C7: with a progress bar supplied, its value is i right after polygon i,
\* it never decreases while a batch is in its loop, and it is N when the
\* batch logs its closing line and returns.
C7_Step ==
    /\ (Depth > 0 /\ Top.pc = "finally" /\ Top.hasBar) => bar'.value = Top.i
    /\ (\E k \in 1..Depth : stack[k].hasBar /\ stack[k].i >= 1) => bar'.value >= bar.value
    /\ (Depth > 0 /\ Top.pc = "end323" /\ Top.hasBar) => bar.value = Top.total

C7_ProgressAdvances == [][C7_Step]_vars

\* C8: whenever a batch with a progress bar and N > 0 polygons is in its
\* loop, the bar's range is [0, N] and its value is within it, with or
\* without a status label.
C8_ProgressBounds ==
    \A f \in Frames :
       (f.hasBar /\ f.total > 0 /\ f.i >= 1) =>
          /\ bar.min = 0 /\ bar.max = f.total
          /\ bar.value <= bar.max

\* C9 as claimed: the closing report of a batch states the count of
\* succeeded and the count of failed polygons, adding up to N.
Succeeded(c) == Cardinality({k \in OutcomePos(c) : log[k].kind = "OK"})
Failed(c) == Cardinality({k \in OutcomePos(c) : log[k].kind # "OK"})

C9_FinalCounts ==
    \A k \in DOMAIN log :
       log[k].kind = "Listo" => log[k].nums = <<Succeeded(log[k].call), Failed(log[k].call)>>

\* C9 as amended: the log is the only report.  When a batch of N polygons
\* writes its closing line, the log holds before it exactly one outcome line
\* per polygon, in ascending index order, each "[i/N]": OK, invalid file, or
\* ERROR with the detail of the error; so the three kinds add up to N.  The
\* closing line itself states no counts.
C9_OutcomeLines ==
    /\ \A f \in Frames :
          f.pc \in {"end320", "pump322", "end323"} =>
             /\ OutcomesUpTo(f.call, f.total)
             /\ Succeeded(f.call) + Failed(f.call) = f.total
    /\ \A k \in DOMAIN log :
          log[k].kind = "Listo" =>
             LET c == log[k].call
                 N == Succeeded(c) + Failed(c)
             IN /\ log[k].nums = <<>>
                /\ N >= 1
                /\ OutcomesUpTo(c, N)
                /\ \A a \in OutcomePos(c) :
                      /\ a < k
                      /\ log[a].nums = <<log[a].nums[1], N>>
                      /\ log[a].kind = "ERROR" => log[a].detail # ""

C9_Witness ==
    \E k \in DOMAIN log :
       /\ log[k].kind = "Listo"
       /\ \E a \in DOMAIN log : log[a] = Entry(log[k].call, "OK", <<1, 2>>, "")
       /\ \E a \in DOMAIN log : log[a] = Entry(log[k].call, "ERROR", <<2, 2>>, "clip")

\* C10: nothing is loaded for a polygon one of whose steps failed: no layer
\* of the project comes from a polygon whose projection, mask write,
\* download or clip did not succeed.
StepFailed(f) ==
    \E k \in DOMAIN f.steps :
       /\ f.steps[k].step \in {"bbox", "mask", "download", "clip"}
       /\ f.steps[k].res # "ok"

C10_NoLoadAfterFailure ==
    \A f \in Frames :
       StepFailed(f) => ~(\E l \in layers : l.call = f.call /\ l.i = f.i)

\* C11: a reply that finished with an error condition makes
\* http_get_to_file_progress raise: the step that leaves loop.exec_() records
\* the failed download and the polygon's ERROR line with the network detail,
\* and no clip and no load is run for that polygon afterwards.
C11_State ==
    \A f \in Frames :
       (f.reply = "error" /\ f.pc # "exec125") =>
          /\ HasStep(f, "download", "raise")
          /\ ~HasStep(f, "download", "ok")
          /\ ~HasStepNamed(f, "clip")
          /\ ~HasStepNamed(f, "load")

C11_Step ==
    \A k \in 1..Depth :
       (/\ stack[k].pc = "exec125" /\ stack[k].reply = "error"
        /\ k <= Len(stack') /\ stack'[k].pc # "exec125") =>
          /\ stack'[k].steps =
                stack[k].steps \o <<Ev("download", "raise"), Ev("outcome", "ERROR")>>
          /\ stack'[k].pc = "finally"
          /\ log' = Append(log, Entry(stack[k].call, "ERROR",
                                      <<stack[k].i, stack[k].total>>, "network"))

C11_NetworkErrorRaises == [](C11_State) /\ [][C11_Step]_vars

C11_Witness ==
    \E f \in Frames :
       /\ f.reply = "error" /\ f.pc = "next"
       /\ HasStep(f, "download", "raise")
       /\ \E k \in DOMAIN log :
             log[k] = Entry(f.call, "ERROR", <<f.i, f.total>>, "network")

\* C12: every call of http_get_to_file_progress creates or truncates its
\* destination; when it returns or raises, the file holds exactly the chunks
\* readyRead delivered to this call, as many as the received counter says;
\* after a failure the file is still on disk.
C12_Step ==
    (Depth > 0 /\ Len(stack') = Depth) =>
       LET p == Path(Top.res, "raw", Top.i) IN
       /\ (Top.pc = "get" /\ stack'[Depth].pc # "get") =>
             disk'[p] = [by |-> Top.call, good |-> FALSE, len |-> 0]
       /\ (Top.pc = "exec125" /\ stack'[Depth].pc # "exec125") =>
             /\ disk'[p].by = Top.call
             /\ disk'[p].len = Top.received
             /\ disk'[p] # NoFile

C12_FileHoldsChunks == [][C12_Step]_vars

\* C13: http_get_to_file_progress blocks until the reply has finished.  While
\* the reply of a polygon is running its call stays inside loop.exec_() on
\* that polygon (no timeout takes it out); a download is over only with a
\* finished reply; and, every reply finishing eventually, every call ends,
\* a batch over N polygons with the outcomes of all N logged.
TotalOf(c) ==
    IF OutcomePos(c) = {} THEN 0 ELSE log[CHOOSE k \in OutcomePos(c) : TRUE].nums[2]

Done(c) ==
    /\ c \in DOMAIN calls
    /\ \/ calls[c] \in {"ValueError", "rejected"}
       \/ /\ calls[c] = "returned"
          /\ OutcomesUpTo(c, TotalOf(c))
          /\ IF TotalOf(c) = 0
             THEN \E k \in DOMAIN log : log[k] = Entry(c, "NoPoligonos", <<>>, "")
             ELSE \E k \in DOMAIN log : log[k] = Entry(c, "Listo", <<>>, "")

C13_State ==
    \A f \in Frames :
       /\ HasStepNamed(f, "download") => f.reply \in {"ok", "error"}
       /\ f.reply = "running" => f.pc = "exec125"

C13_Step ==
    \A k \in 1..Depth :
       (stack[k].pc = "exec125" /\ stack[k].reply = "running") =>
          /\ k <= Len(stack')
          /\ stack'[k].pc = "exec125"
          /\ stack'[k].i = stack[k].i
          /\ calls'[stack[k].call] = "running"

Kinds == {"raw", "mask", "out"}

C17_Step ==
    /\ \A p \in Paths :
          disk'[p] # disk[p] =>
             \E k \in 1..Depth, kind \in Kinds :
                p = Path(stack[k].res, kind, stack[k].i)
    /\ (/\ Depth > 0 /\ Len(stack') = Depth /\ Top.pc = "clip"
        /\ HasStep(stack'[Depth], "clip", "ok")) =>
          /\ disk[<<Top.res, "raw", Top.i>>].good
          /\ disk[<<Top.res, "mask", Top.i>>].good
          /\ \A p \in Paths : disk'[p] # disk[p] => p = <<Top.res, "out", Top.i>>

C17_Distinct ==
    \A res \in VALID_RES, i, j \in 1..(MaxPolys + 1), k1, k2 \in Kinds :
       i # j => Path(res, k1, i) # Path(res, k2, j)

C17_NoSharedArtifacts == [](C17_Distinct) /\ [][C17_Step]_vars

C17_Witness ==
    \E f \in Frames :
       /\ f.i = 2 /\ HasStep(f, "clip", "ok")
       /\ \A kind \in Kinds, j \in {1, 2} :
             disk[Path(f.res, kind, j)] = [by |-> f.call, good |-> TRUE,
                                           len |-> disk[Path(f.res, kind, j)].len]

\* C18: whenever the vector writer reports a non-success status, as a bare
\* status code or as a tuple (status, message), the mask writer raises; the
\* error carries the writer's message (the tuple's; a bare code has none).
\* In the batch the polygon gets its ERROR line with that error, and neither
\* its download nor its clip nor its load is run.
C18_State ==
    \A f \in Frames :
       f.writer.code # "NoError" =>
          /\ HasStep(f, "mask", "raise")
          /\ ~HasStep(f, "mask", "ok")
          /\ ~HasStepNamed(f, "get") /\ ~HasStepNamed(f, "clip") /\ ~HasStepNamed(f, "load")
          /\ \E k \in ErrorPosOf(f.call, f.i) :
                log[k].detail =
                   IF f.writer.shape = "tuple"
                   THEN "No se pudo exportar mascara GeoJSON: writer message"
                   ELSE "No se pudo exportar mascara GeoJSON: "

C18_Step ==
    (Depth > 0 /\ Top.pc = "mask" /\ Len(stack') = Depth /\ stack'[Depth].pc # "mask") =>
       (HasStep(stack'[Depth], "mask", "ok") =>
           /\ stack'[Depth].writer = NoResult
           /\ disk'[<<Top.res, "mask", Top.i>>] = [by |-> Top.call, good |-> TRUE, len |-> 0])

C18_MaskWriteError == [](C18_State) /\ [][C18_Step]_vars

C18_Witness ==
    \E f \in Frames :
       /\ f.pc = "next"
       /\ f.writer = [shape |-> "code", code |-> "ErrCreateDataSource", msg |-> ""]
       /\ \E k \in DOMAIN log : log[k].kind = "ERROR" /\ log[k].call = f.call
             /\ log[k].detail = "No se pudo exportar mascara GeoJSON: writer message"

\* C19: every non-success of the external clip for polygon i (an exception
\* of processing.run, or a failed GDAL process it reports without raising)
\* becomes a failure of polygon i: its outcome is the ERROR line with the
\* clip's error, never OK, and nothing is loaded for it.
ClipFailed(f) == HasStep(f, "clip", "raise") \/ HasStep(f, "clip", "silent")

C19_ClipFailure ==
    \A f \in Frames :
       ClipFailed(f) =>
          /\ ~HasStep(f, "load", "ok")
          /\ ~HasStep(f, "outcome", "OK")
          /\ HasStepNamed(f, "outcome") =>
                \E k \in ErrorPosOf(f.call, f.i) : log[k].detail = "clip"

\* Each polygon that has its outcome has exactly one outcome line in the log:
\* OK when it was loaded, invalidKind when the load found no valid raster,
\* ERROR when a step raised; only kinds of `kinds` occur; a polygon still in
\* its pipeline has no line; a call that returned has one for each of 1..N.
OneOutcome(kinds, invalidKind) ==
    /\ \A k \in DOMAIN log : log[k].kind \in OutcomeKinds => log[k].kind \in kinds
    /\ \A f \in Frames :
          f.i >= 1 =>
             IF HasStepNamed(f, "outcome")
             THEN /\ Cardinality(OutcomePosOf(f.call, f.i)) = 1
                  /\ \A k \in OutcomePosOf(f.call, f.i) :
                        log[k].kind =
                           IF HasStep(f, "load", "ok") THEN "OK"
                           ELSE IF HasStep(f, "load", "invalid") THEN invalidKind
                           ELSE "ERROR"
                  /\ HasStep(f, "load", "invalid") =>
                        ~(\E l \in layers : l.call = f.call /\ l.i = f.i)
             ELSE OutcomePosOf(f.call, f.i) = {}
    /\ \A c \in Started : calls[c] = "returned" => OutcomesUpTo(c, TotalOf(c))

C21_Step ==
    (Depth > 0 /\ Len(stack') = Depth /\ Top.pc = "clip" /\ stack'[Depth].pc # "clip") =>
       /\ HasStep(Top, "mask", "ok") /\ HasStep(Top, "download", "ok")
       /\ \A p \in ClipInputs(Top) : disk[p].by = Top.call

C21_FreshClipInputs == [][C21_Step]_vars

\* C22: an invocation of on_download_poly that passed the layer validation
\* and returns normally leaves the status label off "Preparando..." and the
\* progress value at the range maximum, for any polygon count N >= 0.
C22_Step ==
    (/\ Depth > 0 /\ Top.slot
     /\ Len(stack') = Depth - 1 /\ calls'[Top.call] = "returned") =>
       /\ label' # "Preparando"
       /\ bar'.value = bar'.max

C22_TerminalUi == [][C22_Step]_vars


(* ===================== properties of tab "Por Estado" ================== *)
EFrames == {estado.stack[k] : k \in DOMAIN estado.stack}
EErrorsOf(c) ==
    Cardinality({k \in DOMAIN estado.log :
                    estado.log[k].kind = "ERROR" /\ estado.log[k].call = c})

\* C23: download_estado_with_progress never lets an exception out: every
\* invocation is running, has returned, or has returned through its except
\* clause; a failure of any stage leaves the progress bar at 0 of 0..100, the
\* label "Error." and exactly one ERROR entry of that invocation in the log,
\* and an invocation that did not fail has none.
C23_State ==
    \A c \in DOMAIN estado.calls :
       /\ estado.calls[c] \in {"rejected", "running", "returned", "caught"}
       /\ EErrorsOf(c) = IF estado.calls[c] = "caught" THEN 1 ELSE 0

C23_Step ==
    \A c \in DOMAIN estado.calls :
       (estado.calls[c] = "running" /\ estado'.calls[c] = "caught") =>
          /\ estado'.bar = [min |-> 0, max |-> 100, value |-> 0]
          /\ estado'.label = "Error."
          /\ estado'.log[Len(estado'.log)].kind = "ERROR"
          /\ estado'.log[Len(estado'.log)].call = c
          /\ estado'.stack = SubSeq(estado.stack, 1, EDepth - 1)

C23_FailureIsContained == [](C23_State) /\ [][C23_Step]_vars

\* a network error caught while the bar was busy (0..0) or part-way
C23_Witness ==
    /\ estado.label = "Error."
    /\ estado.bar = [min |-> 0, max |-> 100, value |-> 0]
    /\ \E k \in DOMAIN estado.log :
          /\ estado.log[k] = Entry(estado.log[k].call, "ERROR", <<>>, "Error de red")
          /\ estado.calls[estado.log[k].call] = "caught"
    /\ \E k \in DOMAIN estado.log : estado.log[k].detail = "zip"

\* C24: the stages of an invocation run in the order download, unzip, raster
\* discovery, adding rasters, each only after the one before it succeeded:
\* a raster is added only by an invocation whose unzip and discovery are
\* done, and an invocation whose download failed never unzips and never adds
\* a layer.
StageOrder == <<"prepare", "download", "unzip", "discover">>
C24_State ==
    /\ \A f \in EFrames : \A k \in DOMAIN f.steps :
          IF k <= Len(StageOrder)
          THEN f.steps[k] = Ev(StageOrder[k], "ok")
          ELSE f.steps[k].step = "add"
    /\ \A k \in DOMAIN estado.log :
          (estado.log[k].kind = "ERROR" /\ estado.log[k].detail \in {"Error de red", "open", "mkdir"}) =>
             /\ \A l \in estado.layers : l[1] # estado.log[k].call
             /\ \A j \in DOMAIN estado.log :
                   estado.log[j].call = estado.log[k].call =>
                      estado.log[j].kind \notin {"Descomprimiendo", "Agregado", "Invalido"}

C24_Step ==
    /\ estado'.layers # estado.layers =>
          /\ EDepth > 0
          /\ HasStep(ETop, "download", "ok") /\ HasStep(ETop, "unzip", "ok")
          /\ HasStep(ETop, "discover", "ok")
          /\ estado'.layers = estado.layers \cup {<<ETop.call, ETop.i + 1>>}
    /\ (EDepth > 0 /\ ETop.pc = "unzip" /\ estado'.stack # estado.stack) =>
          HasStep(ETop, "download", "ok")

C24_StageOrder == [](C24_State) /\ [][C24_Step]_vars

C24_Witness ==
    /\ \E l \in estado.layers : estado.calls[l[1]] = "returned"
    /\ \E k \in DOMAIN estado.log : estado.log[k].detail = "Error de red"

(* ============== properties of the dialog and of the plugin ============= *)
\* C25: a click on "Descargar por Poligono" whose combo entry is not a
\* valid polygon vector layer (the placeholder None, a non-vector layer, a
\* vector layer that is not polygonal) starts no batch: it appends the
\* "Selecciona una capa" line to the log and nothing else; no activation is
\* pushed, no request is sent, no file is touched, and the status label and
\* the progress bar stay exactly as they were.
C25_Step ==
    \A layer \in ComboEntries, res \in ComboRes :
       ((layer.none \/ ~layer.vector \/ ~layer.polygon) /\ on_download_poly(layer, res)) =>
          /\ log' = Append(log, Entry(0, "Selecciona", <<>>, ""))
          /\ calls' = Append(calls, "rejected")
          /\ UNCHANGED <<stack, label, bar, disk, layers>>

C25_State ==
    \A c \in DOMAIN calls :
       calls[c] = "rejected" =>
          /\ \A k \in DOMAIN stack : stack[k].call # c
          /\ \A k \in DOMAIN log : log[k].call # c
          /\ \A p \in Paths : disk[p].by # c

C25_InvalidLayerStartsNothing == [](C25_State) /\ [][C25_Step]_vars

\* a rejected click made while a batch is waiting for its reply
C25_Witness ==
    /\ \E c \in DOMAIN calls : calls[c] = "rejected"
    /\ \E k \in DOMAIN log : log[k].kind = "Selecciona"
    /\ Depth > 0 /\ Top.reply = "running" /\ label # "Listo."

\* C26: over every sequence of initGui, run and unload on one plugin object
\* at most one CEMDialog is made (run makes it when _dlg is None and shows
\* the one it has otherwise), and an unload leaves _action None with the
\* action it held in neither the plugin menu nor the toolbar.
C26_State ==
    /\ plugin.dialogs <= 1
    /\ plugin.dlg = plugin.dialogs
    /\ plugin.last = "unload" =>
          /\ plugin.action = 0
          /\ \A a \in plugin.menu \cup plugin.toolbar : a < plugin.made

C26_Step ==
    /\ (plugin'.last = "unload" /\ plugin'.ops = plugin.ops + 1) =>
          /\ plugin'.action = 0
          /\ plugin.action # 0 =>
                /\ plugin.action \notin plugin'.menu
                /\ plugin.action \notin plugin'.toolbar
    /\ (plugin'.last = "run" /\ plugin'.ops = plugin.ops + 1 /\ plugin.dlg # 0) =>
          /\ plugin'.dlg = plugin.dlg
          /\ plugin'.dialogs = plugin.dialogs
          /\ plugin'.shown

Padded == pure.phase \in {"padded", "built", "touched", "again"}
Built == pure.phase \in {"built", "touched", "again"}

\* C14: for a supported resolution R and a raw box (minX, minY, maxX, maxY),
\* the box handed to build_wcs_getcoverage_url is (minX - s, minY - s,
\* maxX + s, maxY + s) with s = meters_to_deg_step(R) > 0; it contains the
\* raw box and keeps minX <= maxX and minY <= maxY.
C14_Padding ==
    (Padded /\ pure.res \in VALID_RES) =>
       LET s == meters_to_deg_step(pure.res).val
           r == pure.raw
           b == pure.bbox
       IN /\ s > 0
          /\ b = <<r[1] - s, r[2] - s, r[3] + s, r[4] + s>>
          /\ b[1] <= r[1] /\ b[2] <= r[2] /\ r[3] <= b[3] /\ r[4] <= b[4]
          /\ b[1] <= b[3] /\ b[2] <= b[4]
          /\ Built => pure.url = build_wcs_getcoverage_url(b, pure.res)

C14_Witness ==
    /\ pure.phase = "built" /\ pure.res = 15
    /\ pure.raw = <<-72013, 5, -72013, 54321>>
    /\ pure.bbox = <<-72018, 0, -72008, 54326>>

\* C15: meters_to_deg_step returns 0.5, 1, 2, 3, 4 arcseconds (over 3600, in
\* degrees) for 15, 30, 60, 90, 120 m and fails with the invalid-resolution
\* error for every other input; build_wcs_getcoverage_url then fails in the
\* same way, producing no URL, with no request made and nothing written.
ArcsecTenths(res) ==
    CASE res = 15 -> 5 [] res = 30 -> 10 [] res = 60 -> 20
      [] res = 90 -> 30 [] res = 120 -> 40 [] OTHER -> 0

C15_StepTable ==
    /\ pure.phase \notin {"idle", "input"} =>
          IF pure.res \in {15, 30, 60, 90, 120}
          THEN pure.step = [err |-> "", val |-> ArcsecTenths(pure.res)]
          ELSE pure.step = [err |-> "ValueError", val |-> 0]
    /\ (Built /\ pure.res \notin {15, 30, 60, 90, 120}) =>
          /\ pure.url = [err |-> "ValueError", url |-> <<>>]
          /\ pure.phase = "built" =>
                /\ stack = <<>> /\ log = <<>>
                /\ \A p \in Paths : disk[p] = NoFile
    /\ (Built /\ pure.res \in {15, 30, 60, 90, 120}) =>
          /\ pure.url.err = ""
          /\ pure.url.url[8] = Fmt7(ArcsecTenths(pure.res))

C15_Witness ==
    /\ pure.phase = "built" /\ pure.res = 45
    /\ pure.step.err = "ValueError" /\ pure.url.err = "ValueError"

\* C16: build_wcs_getcoverage_url is pure.  Two calls with the same box and
\* resolution give the same result whatever the program did in between (log
\* lines, progress updates, files written), and a call changes nothing of
\* the program's state: no file, no request, no widget, no log line.
C16_State ==
    /\ pure.phase = "again" => pure.url2 = pure.url
    /\ Built => pure.url = build_wcs_getcoverage_url(pure.bbox, pure.res)

C16_Step ==
    (pure'.url # pure.url \/ pure'.url2 # pure.url2 \/ pure'.phase \in {"built", "again"}) =>
       UNCHANGED <<stack, calls, log, label, bar, disk, layers, work>>

C27_EstadoUrl ==
    pure.phase = "estado" =>
       LET q == pure.estado_url.query
           f == q[1][2]
       IN  /\ pure.estado_url.base = BASE_URL
           /\ Len(q) = 3 /\ q[1][1] = "file" /\ q[2][1] = "res"
           /\ f = <<"CEM_V3_", "20170619", "_R", Digits(pure.res), "_E", pure.item.cve,
                    IF pure.res = 15 THEN "_TIF.zip" ELSE ".zip">>
           /\ (f[7] = "_TIF.zip") <=> (pure.res = 15)
           /\ q[2][2] = f[4]
           /\ q[3] = <<"entidad", pure.item.entidad>>

C27_Witness ==
    /\ pure.phase = "estado" /\ pure.res = 15 /\ pure.item.cve = "32"
    /\ pure.estado_url.query[1][2] =
          <<"CEM_V3_", "20170619", "_R", <<1, 5>>, "_E", "32", "_TIF.zip">>
    /\ pure.estado_url.query[2] = <<"res", <<1, 5>>>>

====
